---- MODULE Spec2Model ----
(***************************************************************************)
(* Client-side state synchronisation and input pipeline of the             *)
(* promptandconquer client: the App component (client/src/App.tsx), its    *)
(* connection effect, its players mirror, its game loop, and the           *)
(* GroundGrid component's grid_square mirror.                              *)
(*                                                                         *)
(* One handler of the source is one action.  React state setters called    *)
(* inside one handler are applied together; the re-render they request     *)
(* and the passive effects of that render run later, in the action Commit, *)
(* so that a display-refresh tick or an SDK callback may run in between.   *)
(* A setter called from a callback of a component instance that is no      *)
(* longer mounted changes nothing (React drops it).                        *)
(***************************************************************************)
EXTENDS Integers, Sequences, FiniteSets, TLC

(***************************************************************************)
(* Bounds of the model.                                                    *)
(***************************************************************************)
MaxSessions == 2
MaxMounts == 2
NumIdentities == 2
NumUsernames == 2
NumColumns == 2
MaxTicks == 2
MaxLog == 3
MaxYaw == 1600000

(***************************************************************************)
(* Program constants.                                                      *)
(***************************************************************************)
SeqThreshold == 1000000

NoConn == 0
NoIdentity == 0
NoFrame == 0

\* Angles are counted in millionths of a radian: the sensitivity 0.002 of
\* handleMouseMove, and Math.PI / 2.5 = 1.2566370..., the limit of the
\* vertical rotation.
Sensitivity == 2000
VerticalLimit == 1256637

Sessions == 1..MaxSessions
Identities == 1..NumIdentities
Usernames == {"user" \o ToString(n) : n \in 1..NumUsernames}

HexDigits == <<"0", "1", "2", "3", "4", "5", "6", "7", "8", "9", "a", "b", "c", "d", "e", "f">>

\* Identity.toHexString(): the identity's value written in hexadecimal.
toHexString(id) == HexDigits[((id \div 16) % 16) + 1] \o HexDigits[(id % 16) + 1]

\* PlayerData rows: the identity and the rest of the row (username stands for
\* the mutable payload of the row).
PlayerData == [identity : Identities, username : Usernames]
NoPlayer == [identity |-> NoIdentity, username |-> ""]

\* The key of a grid square, `square-${row}-${col}`.
squareKey(row, col) == "square-" \o ToString(row) \o "-" \o ToString(col)
GridKeys == {squareKey(0, col) : col \in 0..(NumColumns - 1)}
GridSquareData == [key : GridKeys, selected : BOOLEAN]

(***************************************************************************)
(* Maps (JavaScript Map) as functions with a finite domain.                *)
(***************************************************************************)
EmptyMap == [k \in {} |-> NoPlayer]
MapSet(m, k, v) == [x \in (DOMAIN m) \cup {k} |-> IF x = k THEN v ELSE m[x]]
MapDelete(m, k) == [x \in (DOMAIN m) \ {k} |-> m[x]]
MapSize(m) == Cardinality(DOMAIN m)
MapValues(m) == {m[k] : k \in DOMAIN m}

VARIABLES
  conn,               \* module-level `let conn` of App.tsx
  windowConn,         \* window.conn
  mounted,            \* an App instance is mounted
  instance,           \* which App instance is (or was last) mounted
  connected,          \* useState connected
  identity,           \* useState identity
  statusMessage,      \* useState statusMessage
  players,            \* useState players, a Map keyed by identity hex string
  localPlayer,        \* useState localPlayer
  showJoinDialog,     \* useState showJoinDialog
  dirty,              \* a state setter ran since the last committed render
  rendered,           \* connected, conn, identity and showJoinDialog as the last committed render saw them
  sequence,           \* currentInputRef.current.sequence
  animationFrameIdRef,\* animationFrameIdRef.current
  frames,             \* callbacks pending on the display-refresh scheduler
  sendCalls,          \* number of sendInput calls made by the mounted instance
  sessions,           \* the connections built so far, as the SDK sees them
  gridMounted,        \* a GroundGrid instance is mounted
  selectedSquares,    \* GroundGrid useState selectedSquares
  gridRegistered,     \* sessions on which the mounted GroundGrid registered callbacks
  gridPending,        \* sessions whose GroundGrid subscription has not been applied yet
  playerLog,          \* player events delivered to the mounted App since its mirror was empty
  gridLog,            \* grid_square events delivered to the mounted GroundGrid
  logging,            \* the two logs are being kept
  lastOp,             \* the handler that ran last
  currentInput,       \* the eight action flags of currentInputRef.current
  lastSentInputState, \* lastSentInputState.current
  listening,          \* the input listeners of the mounted instance are attached
  animationName,      \* the tag the last call of determineAnimation returned
  remoteCalls,        \* the reducer calls made by the handler that ran last
  pointerLockElement, \* document.pointerLockElement === document.body
  isPointerLocked,    \* useState isPointerLocked
  playerRotation      \* playerRotationRef.current: x (vertical) and y (horizontal)

vars == <<conn, windowConn, mounted, instance, connected, identity, statusMessage,
          players, localPlayer, showJoinDialog, dirty, rendered, sequence,
          animationFrameIdRef, frames, sendCalls, sessions, gridMounted,
          selectedSquares, gridRegistered, gridPending, playerLog, gridLog, logging,
          lastOp, currentInput, lastSentInputState, listening, animationName,
          remoteCalls, pointerLockElement, isPointerLocked, playerRotation>>


(***************************************************************************)
(* The connections the SDK has built.  status is "none" before             *)
(* DbConnection.builder()...build() created the connection, "pending"      *)
(* while its handshake runs, "live" after onConnect and "closed" after     *)
(* onDisconnect or a failed handshake.  owner is the App instance whose    *)
(* connection effect built it; closureIdentity is the `identity` its       *)
(* callbacks closed over; cache is the client cache of the player table    *)
(* and gridCache that of the grid_square table.                            *)
(***************************************************************************)
NoSession == [status |-> "none", owner |-> 0, closureIdentity |-> NoIdentity,
              cache |-> EmptyMap, gridCache |-> EmptyMap,
              registered |-> FALSE, applying |-> FALSE]

Built == {s \in Sessions : sessions[s].status # "none"}
Open == {s \in Sessions : sessions[s].status \in {"pending", "live"}}

\* The callbacks of session s were created by the App instance that is mounted
\* now, so the state setters they call take effect.
Owns(s) == mounted /\ sessions[s].owner = instance

\* The SDK still runs the row callbacks of s: it is live, or it has been closed
\* and an event that was already queued is delivered late.
Delivers(s) == sessions[s].registered /\ sessions[s].status \in {"live", "closed"}

\* The record of the handler that ran last: its name, the session (or frame,
\* or instance) it ran for, and the size its mirror had when it started.
OpAt(name, arg, pre) == [op |-> name, arg |-> arg, pre |-> pre]
Op(name, arg) == OpAt(name, arg, 0)

\* The logs are kept only of row events.
KeepLogs == UNCHANGED <<playerLog, gridLog, logging>>

\* A row event of the player table is appended to the log when logs are kept.
LogPlayer(op, row) ==
  /\ logging => Len(playerLog) < MaxLog
  /\ playerLog' = IF logging THEN Append(playerLog, [op |-> op, row |-> row]) ELSE playerLog
  /\ UNCHANGED <<gridLog, logging>>

\* A row event of the grid_square table is appended to the log when logs are kept.
LogGrid(op, row) ==
  /\ logging => Len(gridLog) < MaxLog
  /\ gridLog' = IF logging THEN Append(gridLog, [op |-> op, row |-> row]) ELSE gridLog
  /\ UNCHANGED <<playerLog, logging>>

(***************************************************************************)
(* The input snapshot and the reducer calls.                               *)
(***************************************************************************)
\* InputState without its sequence counter, which is the variable `sequence`.
InputState == [forward : BOOLEAN, backward : BOOLEAN, left : BOOLEAN, right : BOOLEAN,
               sprint : BOOLEAN, jump : BOOLEAN, attack : BOOLEAN, castSpell : BOOLEAN]

\* The value useRef gives currentInputRef: every flag false.
NoInput == [forward |-> FALSE, backward |-> FALSE, left |-> FALSE, right |-> FALSE,
            sprint |-> FALSE, jump |-> FALSE, attack |-> FALSE, castSpell |-> FALSE]

\* The value useRef gives lastSentInputState: {}, no snapshot sent.
NoSent == <<>>

\* No call of determineAnimation has returned yet.
NoAnimation == ""

\* The InputState that currentInputRef.current holds: the flags and the
\* sequence counter.
InputSnapshot(flags, seq) ==
  [forward |-> flags.forward, backward |-> flags.backward, left |-> flags.left,
   right |-> flags.right, sprint |-> flags.sprint, jump |-> flags.jump,
   attack |-> flags.attack, castSpell |-> flags.castSpell, sequence |-> seq]

\* The template literal `${moveType}-${direction}`.
Tag(moveType, direction) == moveType \o "-" \o direction

\* A movement part that lets sprint count for the forward direction only.
movementAnimationSprintForward(input) ==
  LET forward == input.forward
      backward == input.backward
      left == input.left
      right == input.right
      isMoving == forward \/ backward \/ left \/ right
      direction ==
        IF forward /\ ~backward THEN "forward"
        ELSE IF backward /\ ~forward THEN "back"
        ELSE IF left /\ ~right THEN "left"
        ELSE IF right /\ ~left THEN "right"
        ELSE "forward"
      moveType == IF input.sprint /\ direction = "forward" THEN "run" ELSE "walk"
  IN IF ~isMoving THEN "idle" ELSE Tag(moveType, direction)

\* The part of determineAnimation that follows the three early returns: the
\* tag of the movement keys.
movementAnimation(input) ==
  LET forward == input.forward
      backward == input.backward
      left == input.left
      right == input.right
      sprint == input.sprint
      isMoving == forward \/ backward \/ left \/ right
      direction ==
        IF forward /\ ~backward THEN "forward"
        ELSE IF backward /\ ~forward THEN "back"
        ELSE IF left /\ ~right THEN "left"
        ELSE IF right /\ ~left THEN "right"
        ELSE IF forward /\ left THEN "left"
        ELSE IF forward /\ right THEN "right"
        ELSE IF backward /\ left THEN "left"
        ELSE IF backward /\ right THEN "right"
        ELSE "forward"
      moveType == IF sprint THEN "run" ELSE "walk"
      animationName_ == Tag(moveType, direction)
  IN IF ~isMoving THEN "idle" ELSE animationName_

\* A determineAnimation that tests jump before attack and cast.
determineAnimationJumpFirst(input) ==
  IF input.jump THEN "jump"
  ELSE IF input.attack THEN "attack1"
  ELSE IF input.castSpell THEN "cast"
  ELSE movementAnimation(input)

\* A determineAnimation that reads the sequence counter: no tag for a
\* snapshot that no tick has counted yet.
determineAnimationFromSequence(input) ==
  IF input.sequence = 0 THEN "none"
  ELSE IF input.attack THEN "attack1"
  ELSE IF input.castSpell THEN "cast"
  ELSE IF input.jump THEN "jump"
  ELSE movementAnimation(input)

\* determineAnimation: attack, cast and jump first, then the movement keys.
determineAnimation(input) ==
  IF input.attack THEN "attack1"
  ELSE IF input.castSpell THEN "cast"
  ELSE IF input.jump THEN "jump"
  ELSE movementAnimation(input)

\* A call of a reducer of connection c.
Call(reducer, c, args) == [reducer |-> reducer, session |-> c, args |-> args]

\* The handler calls no reducer.
NoRemoteCall == remoteCalls' = <<>>

\* The handler leaves the input refs, the listeners and the animation tag alone.
InputFrame ==
  UNCHANGED <<currentInput, lastSentInputState, listening, animationName,
              pointerLockElement, isPointerLocked, playerRotation>>

\* The value useRef gives playerRotationRef: new THREE.Euler(0, 0, 0, 'YXZ').
NoRotation == [x |-> 0, y |-> 0]

\* The handler leaves the pointer lock and the rotation alone.
PointerFrame == UNCHANGED <<pointerLockElement, isPointerLocked, playerRotation>>

(***************************************************************************)
(* The display-refresh scheduler.                                          *)
(***************************************************************************)
FrameIds(fs) == {f.id : f \in fs}

\* requestAnimationFrame returns a handle that no pending callback and no
\* handle still held by the program uses.
NewFrameId(fs, held) ==
  CHOOSE n \in 1..(Cardinality(fs) + Cardinality(held) + 1) :
    /\ n \notin FrameIds(fs) \cup held
    /\ \A m \in 1..(n - 1) : m \in FrameIds(fs) \cup held

cancelAnimationFrame(fs, id) == {f \in fs : f.id # id}

\* A cleanup that forgets the handle without cancelling the frame it names.
LoopCleanupKeepsFrame(loop) ==
  IF loop.ref # NoFrame
    THEN [ref |-> NoFrame, frames |-> loop.frames]
    ELSE loop

\* The cleanup returned by the game loop effect.
LoopCleanup(loop) ==
  IF loop.ref # NoFrame
    THEN [ref |-> NoFrame, frames |-> cancelAnimationFrame(loop.frames, loop.ref)]
    ELSE loop

\* The body of the game loop effect, run by a render that saw `c` as connected
\* and `i` as identity: gameLoop closes over both.
LoopStart(loop, c, i) ==
  IF c /\ loop.ref = NoFrame
    THEN LET id == NewFrameId(loop.frames, {})
         IN [ref |-> id,
             frames |-> loop.frames \cup {[id |-> id, connected |-> c, identity |-> i]}]
    ELSE loop

\* The state sendInput reads and writes: the snapshot, the sequence counter
\* and lastSentInputState.current, and the reducer calls it makes.
Dispatch(input, seq, sent, calls) ==
  [input |-> input, sequence |-> seq, lastSent |-> sent, calls |-> calls]

\* A sendInput that runs the body the source keeps in a comment: it sends the
\* snapshot to the reducer unless it equals the last one sent.
sendInputServerAuthoritative(d) ==
  LET currentState == [input |-> d.input, sequence |-> d.sequence]
  IN IF conn = NoConn \/ d.lastSent = <<currentState>>
       THEN d
       ELSE [d EXCEPT !.lastSent = <<currentState>>,
                      !.sequence = IF d.sequence > SeqThreshold THEN 1 ELSE d.sequence,
                      !.calls = <<Call("updatePlayerInput", conn,
                                       <<determineAnimation(
                                           InputSnapshot(d.input, d.sequence))>>)>>]

\* A sendInput that clears the flags of the snapshot it is given.
sendInputClearsFlags(d) == [d EXCEPT !.input = NoInput]

\* sendInput: it returns at once, before the (commented-out) comparison with
\* the last snapshot sent, reset of a high sequence and call of the reducer.
sendInput(d) == d

\* The body of sendInput that the source keeps in a comment under "Original
\* code:", which sends the snapshot to the server: it returns when there is
\* no connection or no identity and when the copy of the snapshot equals
\* lastSentInputState.current; otherwise it stores the copy, resets a high
\* sequence and calls the reducer (playerRotationRef.current is always set).
sendInputOriginal(d) ==
  LET currentState == InputSnapshot(d.input, d.sequence)
      reset == IF d.sequence > SeqThreshold THEN 1 ELSE d.sequence
  IN IF conn = NoConn \/ identity = NoIdentity \/ d.lastSent = <<currentState>>
       THEN d
       ELSE [d EXCEPT !.lastSent = <<currentState>>,
                      !.sequence = reset,
                      !.calls = <<Call("updatePlayerInput", conn,
                                       <<InputSnapshot(d.input, reset),
                                         determineAnimation(
                                           InputSnapshot(d.input, reset))>>)>>]

\* The bound on ticks: a counter that started at 0, or near the threshold.
TickAllowed ==
  \/ sequence < MaxTicks
  \/ sequence >= SeqThreshold - 1 /\ sequence < SeqThreshold + MaxTicks

\* A gameLoop that forgets to ask for the next frame.
gameLoopBodyNoReschedule(f) ==
  LET rest == frames \ {f}
  IN IF ~f.connected \/ conn = NoConn \/ f.identity = NoIdentity
       THEN [sequence |-> sequence, sent |-> 0, ref |-> NoFrame,
             frames |-> IF animationFrameIdRef # NoFrame
                          THEN cancelAnimationFrame(rest, animationFrameIdRef)
                          ELSE rest,
             lastSent |-> lastSentInputState, calls |-> <<>>,
                input |-> currentInput]
       ELSE [sequence |-> sequence + 1, sent |-> 1, ref |-> animationFrameIdRef,
             frames |-> rest, lastSent |-> lastSentInputState, calls |-> <<>>,
                input |-> currentInput]

\* A gameLoop that returns when the session is inactive without releasing
\* the handle it holds.
gameLoopBodyHaltKeepsHandle(f) ==
  LET rest == frames \ {f}
  IN IF ~f.connected \/ conn = NoConn \/ f.identity = NoIdentity
       THEN [sequence |-> sequence, sent |-> 0, ref |-> animationFrameIdRef,
             frames |-> rest, lastSent |-> lastSentInputState, calls |-> <<>>,
                input |-> currentInput]
       ELSE LET id == NewFrameId(rest, {f.id, animationFrameIdRef} \ {NoFrame})
            IN [sequence |-> sequence + 1, sent |-> 1, ref |-> id,
                frames |-> rest \cup {[id |-> id, connected |-> f.connected,
                                       identity |-> f.identity]},
                lastSent |-> lastSentInputState, calls |-> <<>>,
                input |-> currentInput]

\* The body of gameLoop for the pending callback f, already taken off the
\* scheduler: the values it leaves in currentInputRef.current.sequence, in
\* animationFrameIdRef.current and on the scheduler, and the number of
\* sendInput calls it made.
gameLoopBody(f) ==
  LET rest == frames \ {f}
  IN IF ~f.connected \/ conn = NoConn \/ f.identity = NoIdentity
       THEN [sequence |-> sequence,
             sent |-> 0,
             ref |-> NoFrame,
             frames |-> IF animationFrameIdRef # NoFrame
                          THEN cancelAnimationFrame(rest, animationFrameIdRef)
                          ELSE rest,
             lastSent |-> lastSentInputState,
             calls |-> <<>>,
             input |-> currentInput]
       ELSE LET id == NewFrameId(rest, {f.id, animationFrameIdRef} \ {NoFrame})
                d == sendInput(Dispatch(currentInput, sequence + 1,
                                        lastSentInputState, <<>>))
            IN [sequence |-> d.sequence,
                sent |-> 1,
                ref |-> id,
                frames |-> rest \cup {[id |-> id, connected |-> f.connected,
                                       identity |-> f.identity]},
                lastSent |-> d.lastSent,
                calls |-> d.calls,
                input |-> d.input]

\* gameLoop, called by the scheduler for the pending callback f.
gameLoop(f) ==
  /\ f \in frames
  /\ TickAllowed
  /\ LET after == gameLoopBody(f)
     IN /\ sequence' = after.sequence
        /\ sendCalls' = sendCalls + after.sent
        /\ animationFrameIdRef' = after.ref
        /\ frames' = after.frames
        /\ lastSentInputState' = after.lastSent
        /\ remoteCalls' = after.calls
        /\ currentInput' = after.input
  /\ UNCHANGED <<listening, animationName>>
  /\ PointerFrame
  /\ KeepLogs
  /\ lastOp' = Op("gameLoop", f.id)
  /\ UNCHANGED <<conn, windowConn, mounted, instance, connected, identity,
                 statusMessage, players, localPlayer, showJoinDialog, dirty,
                 rendered, sessions, gridMounted, selectedSquares, gridRegistered,
                 gridPending>>

\* gameLoop with the original body of sendInput in place of its early
\* return: the tick of the client that sends its input to the server.
gameLoopServerAuthoritative(f) ==
  /\ f \in frames
  /\ TickAllowed
  /\ LET tick == gameLoopBody(f)
         passed == Dispatch(currentInput, tick.sequence, tick.lastSent, tick.calls)
         after == IF tick.sent = 1 THEN sendInputOriginal(passed) ELSE passed
     IN /\ sequence' = after.sequence
        /\ sendCalls' = sendCalls + tick.sent
        /\ animationFrameIdRef' = tick.ref
        /\ frames' = tick.frames
        /\ lastSentInputState' = after.lastSent
        /\ remoteCalls' = after.calls
        /\ currentInput' = after.input
  /\ UNCHANGED <<listening, animationName>>
  /\ PointerFrame
  /\ KeepLogs
  /\ lastOp' = Op("gameLoop", f.id)
  /\ UNCHANGED <<conn, windowConn, mounted, instance, connected, identity,
                 statusMessage, players, localPlayer, showJoinDialog, dirty,
                 rendered, sessions, gridMounted, selectedSquares, gridRegistered,
                 gridPending>>


(***************************************************************************)
(* The App component: mounting, the connection effect, rendering.          *)
(***************************************************************************)
InitialRender == [connected |-> FALSE, conn |-> NoConn, identity |-> NoIdentity,
                  showJoinDialog |-> FALSE]

\* The dependencies of the game loop effect, as a render saw them.
LoopDeps(r) == [connected |-> r.connected, conn |-> r.conn, identity |-> r.identity]

\* The next connection DbConnection.builder()...build() would create.
NextSession == CHOOSE s \in Sessions \ Built : \A r \in Sessions \ Built : s <= r

\* The body of the connection effect, run by App instance `inst` in a render
\* that saw `i` as identity: nothing is built when conn is set, otherwise a
\* connection is built whose callbacks close over that render.
ConnectionEffect(inst, i) ==
  IF conn # NoConn
    THEN sessions
    ELSE [sessions EXCEPT ![NextSession] =
            [NoSession EXCEPT !.status = "pending", !.owner = inst,
                              !.closureIdentity = i]]

\* The connection effect can run: it skips the setup, or a connection is left
\* to build within the bound.
CanRunConnectionEffect == conn # NoConn \/ Built # Sessions

\* React mounts a new App instance: useState and useRef give their initial
\* values, then both effects run.
Mount ==
  /\ ~mounted
  /\ instance < MaxMounts
  /\ CanRunConnectionEffect
  /\ mounted' = TRUE
  /\ instance' = instance + 1
  /\ connected' = FALSE
  /\ identity' = NoIdentity
  /\ statusMessage' = "Connecting..."
  /\ players' = EmptyMap
  /\ localPlayer' = NoPlayer
  /\ showJoinDialog' = FALSE
  /\ dirty' = FALSE
  /\ rendered' = [InitialRender EXCEPT !.conn = conn]
  /\ sequence' = 0
  /\ sendCalls' = 0
  /\ LET loop == LoopStart([ref |-> NoFrame, frames |-> frames], FALSE, NoIdentity)
     IN /\ animationFrameIdRef' = loop.ref
        /\ frames' = loop.frames
  /\ sessions' = ConnectionEffect(instance + 1, NoIdentity)
  /\ KeepLogs
  /\ currentInput' = NoInput
  /\ lastSentInputState' = NoSent
  /\ listening' = FALSE
  /\ animationName' = NoAnimation
  /\ isPointerLocked' = FALSE
  /\ playerRotation' = NoRotation
  /\ UNCHANGED pointerLockElement
  /\ NoRemoteCall
  /\ lastOp' = Op("mount", instance + 1)
  /\ UNCHANGED <<conn, windowConn, gridMounted, selectedSquares, gridRegistered,
                 gridPending>>

\* React unmounts the App instance (and the GroundGrid below it): the effect
\* cleanups run and the instance's state is gone.
Unmount ==
  /\ mounted
  /\ mounted' = FALSE
  /\ connected' = FALSE
  /\ identity' = NoIdentity
  /\ statusMessage' = "Connecting..."
  /\ players' = EmptyMap
  /\ localPlayer' = NoPlayer
  /\ showJoinDialog' = FALSE
  /\ dirty' = FALSE
  /\ rendered' = InitialRender
  /\ sequence' = 0
  /\ sendCalls' = 0
  /\ LET loop == LoopCleanup([ref |-> animationFrameIdRef, frames |-> frames])
     IN /\ animationFrameIdRef' = loop.ref
        /\ frames' = loop.frames
  /\ gridMounted' = FALSE
  /\ selectedSquares' = {}
  /\ gridRegistered' = {}
  /\ gridPending' = {}
  /\ KeepLogs
  /\ currentInput' = NoInput
  /\ lastSentInputState' = NoSent
  /\ listening' = FALSE
  /\ animationName' = NoAnimation
  /\ isPointerLocked' = FALSE
  /\ playerRotation' = NoRotation
  /\ UNCHANGED pointerLockElement
  /\ NoRemoteCall
  /\ lastOp' = OpAt("unmount", instance, Cardinality(frames))
  /\ UNCHANGED <<conn, windowConn, instance, sessions>>

\* React runs the cleanups of the mounted instance's effects and runs the
\* effects again with the closures of the last committed render (StrictMode's
\* double invocation, a hot reload), keeping the instance's state.
EffectsRerun ==
  /\ mounted
  /\ CanRunConnectionEffect
  /\ LET loop == LoopStart(LoopCleanup([ref |-> animationFrameIdRef, frames |-> frames]),
                           rendered.connected, rendered.identity)
     IN /\ animationFrameIdRef' = loop.ref
        /\ frames' = loop.frames
  /\ sessions' = ConnectionEffect(instance, rendered.identity)
  /\ KeepLogs
  /\ listening' = (conn # NoConn /\ rendered.connected)
  /\ UNCHANGED <<currentInput, lastSentInputState, animationName>>
  /\ PointerFrame
  /\ NoRemoteCall
  /\ lastOp' = Op("rerun", instance)
  /\ UNCHANGED <<conn, windowConn, mounted, instance, connected, identity,
                 statusMessage, players, localPlayer, showJoinDialog, dirty,
                 rendered, sequence, sendCalls, gridMounted, selectedSquares,
                 gridRegistered, gridPending>>

\* The effect of GroundGrid, run when it mounts: it registers its row callbacks
\* and its subscription on window.conn, when that is set.
GridEffect(on) ==
  IF on /\ windowConn # NoConn THEN {windowConn} ELSE {}

\* React re-renders after state setters ran and commits: GroundGrid is mounted
\* exactly while connected is rendered true, and the game loop effect is
\* cleaned up and run again when one of its dependencies changed.
Commit ==
  /\ mounted
  /\ dirty
  /\ dirty' = FALSE
  /\ LET now == [connected |-> connected, conn |-> conn, identity |-> identity,
                 showJoinDialog |-> showJoinDialog]
         old == [ref |-> animationFrameIdRef, frames |-> frames]
         loop == IF LoopDeps(now) # LoopDeps(rendered)
                   THEN LoopStart(LoopCleanup(old), connected, identity)
                   ELSE old
     IN /\ rendered' = now
        /\ animationFrameIdRef' = loop.ref
        /\ frames' = loop.frames
  /\ gridMounted' = connected
  /\ IF connected = gridMounted
       THEN UNCHANGED <<selectedSquares, gridRegistered, gridPending>>
       ELSE /\ selectedSquares' = {}
            /\ gridRegistered' = GridEffect(connected)
            /\ gridPending' = GridEffect(connected)
  /\ KeepLogs
  /\ InputFrame
  /\ NoRemoteCall
  /\ lastOp' = Op("commit", instance)
  /\ UNCHANGED <<conn, windowConn, mounted, instance, connected, identity,
                 statusMessage, players, localPlayer, showJoinDialog, sequence,
                 sendCalls, sessions>>

(***************************************************************************)
(* The callbacks given to DbConnection.builder().                          *)
(***************************************************************************)
\* onConnect of session s, with the identity the server assigned.
OnConnect(s, id) ==
  /\ sessions[s].status = "pending"
  /\ conn' = s
  /\ windowConn' = s
  /\ sessions' = [sessions EXCEPT ![s].status = "live", ![s].applying = TRUE,
                                  ![s].registered = TRUE]
  /\ IF Owns(s)
       THEN /\ identity' = id
            /\ connected' = TRUE
            /\ statusMessage' = "Connected"
            /\ showJoinDialog' = TRUE
            /\ dirty' = TRUE
       ELSE UNCHANGED <<identity, connected, statusMessage, showJoinDialog, dirty>>
  /\ KeepLogs
  /\ listening' = (listening \/ Owns(s))
  /\ UNCHANGED <<currentInput, lastSentInputState, animationName>>
  /\ PointerFrame
  /\ NoRemoteCall
  /\ lastOp' = Op("onConnect", s)
  /\ UNCHANGED <<mounted, instance, players, localPlayer, rendered, sequence,
                 animationFrameIdRef, frames, sendCalls, gridMounted,
                 selectedSquares, gridRegistered, gridPending>>

\* The SDK closes session s: its cache is dropped with it.
Closed(s) == [sessions EXCEPT ![s].status = "closed", ![s].cache = EmptyMap,
                              ![s].gridCache = EmptyMap]

\* onDisconnect of session s.
OnDisconnect(s) ==
  /\ sessions[s].status = "live"
  /\ conn' = NoConn
  /\ windowConn' = NoConn
  /\ sessions' = Closed(s)
  /\ IF Owns(s)
       THEN /\ statusMessage' = "Disconnected"
            /\ identity' = NoIdentity
            /\ connected' = FALSE
            /\ players' = EmptyMap
            /\ localPlayer' = NoPlayer
            /\ dirty' = TRUE
       ELSE UNCHANGED <<statusMessage, identity, connected, players, localPlayer, dirty>>
  /\ KeepLogs
  /\ InputFrame
  /\ NoRemoteCall
  /\ lastOp' = Op("onDisconnect", s)
  /\ UNCHANGED <<mounted, instance, showJoinDialog, rendered, sequence,
                 animationFrameIdRef, frames, sendCalls, gridMounted,
                 selectedSquares, gridRegistered, gridPending>>

\* The handshake of session s fails: the builder was given no error callback.
ConnectFails(s) ==
  /\ sessions[s].status = "pending"
  /\ sessions' = Closed(s)
  /\ KeepLogs
  /\ InputFrame
  /\ NoRemoteCall
  /\ lastOp' = Op("connectFails", s)
  /\ UNCHANGED <<conn, windowConn, mounted, instance, connected, identity,
                 statusMessage, players, localPlayer, showJoinDialog, dirty,
                 rendered, sequence, animationFrameIdRef, frames, sendCalls,
                 gridMounted, selectedSquares, gridRegistered, gridPending>>


(***************************************************************************)
(* The players mirror: the row callbacks registered by                     *)
(* registerTableCallbacks and the subscription callback.                   *)
(***************************************************************************)
\* An onInsert updater that stores the row under its username.
playersOnInsertByUsername(prev, player) == MapSet(prev, player.username, player)

\* The updater that onInsert gives to setPlayers.
playersOnInsert(prev, player) == MapSet(prev, toHexString(player.identity), player)

\* An onUpdate updater that keeps the mirror as it is when the key is absent.
playersOnUpdatePresentOnly(prev, newPlayer) ==
  IF toHexString(newPlayer.identity) \in DOMAIN prev
    THEN MapSet(prev, toHexString(newPlayer.identity), newPlayer)
    ELSE prev

\* The updater that onUpdate gives to setPlayers.
playersOnUpdate(prev, newPlayer) == MapSet(prev, toHexString(newPlayer.identity), newPlayer)

\* The updater that onDelete gives to setPlayers.
playersOnDelete(prev, player) == MapDelete(prev, toHexString(player.identity))

\* The loop of onSubscriptionApplied over conn.db.player.iter(): every row is
\* set under its identity's hex string.
RECURSIVE currentPlayers(_)
currentPlayers(rows) ==
  IF rows = {}
    THEN EmptyMap
    ELSE LET player == CHOOSE r \in rows : TRUE
         IN MapSet(currentPlayers(rows \ {player}), toHexString(player.identity), player)

\* An onSubscriptionApplied updater that loads the cache whatever the mirror holds.
playersOnAppliedAlways(prev, c) ==
  IF c # NoConn THEN currentPlayers(MapValues(sessions[c].cache)) ELSE prev

\* The updater that onSubscriptionApplied gives to setPlayers; c is conn.
playersOnApplied(prev, c) ==
  IF MapSize(prev) = 0 /\ c # NoConn
    THEN currentPlayers(MapValues(sessions[c].cache))
    ELSE prev

\* `identity && player.identity.toHexString() === identity.toHexString()`, with
\* the identity the callback closed over.
IsLocal(s, player) ==
  /\ sessions[s].closureIdentity # NoIdentity
  /\ toHexString(player.identity) = toHexString(sessions[s].closureIdentity)

\* The client cache of the SDK after a row event of a live session.
CachePut(s, player) ==
  IF sessions[s].status = "live"
    THEN [sessions EXCEPT ![s].cache = MapSet(@, toHexString(player.identity), player)]
    ELSE sessions

CacheRemove(s, player) ==
  IF sessions[s].status = "live"
    THEN [sessions EXCEPT ![s].cache = MapDelete(@, toHexString(player.identity))]
    ELSE sessions

\* conn.db.player.onInsert callback of session s.
PlayerInsert(s, player) ==
  /\ Delivers(s)
  /\ sessions' = CachePut(s, player)
  /\ IF Owns(s)
       THEN /\ players' = playersOnInsert(players, player)
            /\ dirty' = TRUE
            /\ IF IsLocal(s, player)
                 THEN /\ localPlayer' = player
                      /\ statusMessage' = "Registered as " \o player.username
                 ELSE UNCHANGED <<localPlayer, statusMessage>>
       ELSE UNCHANGED <<players, dirty, localPlayer, statusMessage>>
  /\ LogPlayer("insert", player)
  /\ InputFrame
  /\ NoRemoteCall
  /\ lastOp' = Op("player.onInsert", s)
  /\ UNCHANGED <<conn, windowConn, mounted, instance, connected, identity,
                 showJoinDialog, rendered, sequence, animationFrameIdRef, frames,
                 sendCalls, gridMounted, selectedSquares, gridRegistered, gridPending>>

\* conn.db.player.onUpdate callback of session s.
PlayerUpdate(s, newPlayer) ==
  /\ Delivers(s)
  /\ sessions' = CachePut(s, newPlayer)
  /\ IF Owns(s)
       THEN /\ players' = playersOnUpdate(players, newPlayer)
            /\ dirty' = TRUE
            /\ IF IsLocal(s, newPlayer)
                 THEN localPlayer' = newPlayer
                 ELSE UNCHANGED localPlayer
       ELSE UNCHANGED <<players, dirty, localPlayer>>
  /\ LogPlayer("update", newPlayer)
  /\ InputFrame
  /\ NoRemoteCall
  /\ lastOp' = Op("player.onUpdate", s)
  /\ UNCHANGED <<conn, windowConn, mounted, instance, connected, identity,
                 statusMessage, showJoinDialog, rendered, sequence,
                 animationFrameIdRef, frames, sendCalls, gridMounted,
                 selectedSquares, gridRegistered, gridPending>>

\* conn.db.player.onDelete callback of session s.
PlayerDelete(s, player) ==
  /\ Delivers(s)
  /\ sessions' = CacheRemove(s, player)
  /\ IF Owns(s)
       THEN /\ players' = playersOnDelete(players, player)
            /\ dirty' = TRUE
            /\ IF IsLocal(s, player)
                 THEN /\ localPlayer' = NoPlayer
                      /\ statusMessage' = "Local player deleted!"
                 ELSE UNCHANGED <<localPlayer, statusMessage>>
       ELSE UNCHANGED <<players, dirty, localPlayer, statusMessage>>
  /\ LogPlayer("delete", player)
  /\ InputFrame
  /\ NoRemoteCall
  /\ lastOp' = Op("player.onDelete", s)
  /\ UNCHANGED <<conn, windowConn, mounted, instance, connected, identity,
                 showJoinDialog, rendered, sequence, animationFrameIdRef, frames,
                 sendCalls, gridMounted, selectedSquares, gridRegistered, gridPending>>

\* A row of the subscribed data set reaches the client cache of session s
\* before the subscription is applied, without a row callback: the state
\* that the initial load of onSubscriptionApplied reads with iter().
PlayerCached(s, player) ==
  /\ sessions[s].status = "live"
  /\ sessions[s].applying
  /\ toHexString(player.identity) \notin DOMAIN sessions[s].cache
  /\ sessions' = CachePut(s, player)
  /\ KeepLogs
  /\ InputFrame
  /\ NoRemoteCall
  /\ lastOp' = Op("player.cached", s)
  /\ UNCHANGED <<conn, windowConn, mounted, instance, connected, identity,
                 statusMessage, players, localPlayer, showJoinDialog, dirty,
                 rendered, sequence, animationFrameIdRef, frames, sendCalls,
                 gridMounted, selectedSquares, gridRegistered, gridPending>>

\* The rows of conn's cache that the identity check of onSubscriptionApplied
\* passes to setLocalPlayer.
LocalRows(s, c) == {p \in MapValues(sessions[c].cache) : IsLocal(s, p)}

\* onSubscriptionApplied, the onApplied callback of the subscription of s.
OnApplied(s) ==
  /\ sessions[s].applying
  /\ sessions[s].status \in {"live", "closed"}
  /\ sessions' = [sessions EXCEPT ![s].applying = FALSE]
  /\ IF Owns(s)
       THEN /\ players' = playersOnApplied(players, conn)
            /\ dirty' = TRUE
            /\ IF MapSize(players) = 0 /\ conn # NoConn /\ LocalRows(s, conn) # {}
                 THEN localPlayer' \in LocalRows(s, conn)
                 ELSE UNCHANGED localPlayer
       ELSE UNCHANGED <<players, dirty, localPlayer>>
  /\ KeepLogs
  /\ InputFrame
  /\ NoRemoteCall
  /\ lastOp' = OpAt("onApplied", s, MapSize(players))
  /\ UNCHANGED <<conn, windowConn, mounted, instance, connected, identity,
                 statusMessage, showJoinDialog, rendered, sequence,
                 animationFrameIdRef, frames, sendCalls, gridMounted,
                 selectedSquares, gridRegistered, gridPending>>


(***************************************************************************)
(* The grid_square mirror of GroundGrid.                                   *)
(***************************************************************************)
\* The updater that gridSquare.onInsert gives to setSelectedSquares; a square
\* that is not selected calls no setter.
gridOnInsert(prev, square) == IF square.selected THEN prev \cup {square.key} ELSE prev

\* The updater that gridSquare.onUpdate gives to setSelectedSquares.
gridOnUpdate(prev, newSquare) ==
  IF newSquare.selected THEN prev \cup {newSquare.key} ELSE prev \ {newSquare.key}

\* The updater that gridSquare.onDelete gives to setSelectedSquares.
gridOnDelete(prev, square) == prev \ {square.key}

\* The set that subscription.onApplied builds from window.conn.db.gridSquare.iter().
initialSelected(c) ==
  {k \in DOMAIN sessions[c].gridCache : sessions[c].gridCache[k].selected}

\* The value that subscription.onApplied of GroundGrid gives to
\* setSelectedSquares; c is window.conn.
gridOnApplied(prev, c) == IF c # NoConn THEN initialSelected(c) ELSE prev

\* GridSquareTableHandle.key.find: the first row of the cache whose key equals
\* col_val, or nothing.
find(s, col_val) ==
  LET rows == {r \in MapValues(sessions[s].gridCache) : r.key = col_val}
  IN IF rows = {} THEN {} ELSE {CHOOSE r \in rows : TRUE}

\* The SDK delivers grid_square row events of s: s is live, or it is closed and
\* an event queued for the callbacks of the mounted GroundGrid arrives late.
GridDelivers(s) ==
  \/ sessions[s].status = "live"
  \/ sessions[s].status = "closed" /\ s \in gridRegistered

GridCachePut(s, square) ==
  IF sessions[s].status = "live"
    THEN [sessions EXCEPT ![s].gridCache = MapSet(@, square.key, square)]
    ELSE sessions

GridCacheRemove(s, square) ==
  IF sessions[s].status = "live"
    THEN [sessions EXCEPT ![s].gridCache = MapDelete(@, square.key)]
    ELSE sessions

GridFrame ==
  UNCHANGED <<conn, windowConn, mounted, instance, connected, identity,
              statusMessage, players, localPlayer, showJoinDialog, dirty,
              rendered, sequence, animationFrameIdRef, frames, sendCalls,
              gridMounted, gridRegistered>>

\* A grid_square row is inserted on session s: the cache takes it and the
\* onInsert callback of GroundGrid runs if it is registered on s.
GridInsert(s, square) ==
  /\ GridDelivers(s)
  /\ sessions' = GridCachePut(s, square)
  /\ selectedSquares' = IF s \in gridRegistered
                          THEN gridOnInsert(selectedSquares, square)
                          ELSE selectedSquares
  /\ LogGrid("insert", square)
  /\ InputFrame
  /\ NoRemoteCall
  /\ lastOp' = Op("gridSquare.onInsert", s)
  /\ UNCHANGED gridPending
  /\ GridFrame

\* A grid_square row is updated on session s.
GridUpdate(s, newSquare) ==
  /\ GridDelivers(s)
  /\ sessions' = GridCachePut(s, newSquare)
  /\ selectedSquares' = IF s \in gridRegistered
                          THEN gridOnUpdate(selectedSquares, newSquare)
                          ELSE selectedSquares
  /\ LogGrid("update", newSquare)
  /\ InputFrame
  /\ NoRemoteCall
  /\ lastOp' = Op("gridSquare.onUpdate", s)
  /\ UNCHANGED gridPending
  /\ GridFrame

\* A grid_square row is deleted on session s.
GridDelete(s, square) ==
  /\ GridDelivers(s)
  /\ sessions' = GridCacheRemove(s, square)
  /\ selectedSquares' = IF s \in gridRegistered
                          THEN gridOnDelete(selectedSquares, square)
                          ELSE selectedSquares
  /\ LogGrid("delete", square)
  /\ InputFrame
  /\ NoRemoteCall
  /\ lastOp' = Op("gridSquare.onDelete", s)
  /\ UNCHANGED gridPending
  /\ GridFrame

\* subscription.onApplied of the subscription GroundGrid made on session s.
GridOnApplied(s) ==
  /\ s \in gridPending
  /\ gridPending' = gridPending \ {s}
  /\ selectedSquares' = gridOnApplied(selectedSquares, windowConn)
  /\ KeepLogs
  /\ InputFrame
  /\ NoRemoteCall
  /\ lastOp' = OpAt("gridSquare.onApplied", s, Cardinality(selectedSquares))
  /\ UNCHANGED sessions
  /\ GridFrame

(***************************************************************************)
(* The handlers of the user's actions and of a failed subscription.        *)
(***************************************************************************)
\* The character classes the join dialog offers.
CharacterClasses == {"Wizard", "Paladin"}

\* The messages of the errors a subscription fails with.
ErrorMessages == {"denied"}

\* onSubscriptionError, the onError callback of the subscription of s.
OnSubscriptionError(s, message) ==
  /\ Delivers(s)
  /\ sessions' = [sessions EXCEPT ![s].applying = FALSE]
  /\ IF Owns(s)
       THEN /\ statusMessage' = "Subscription Error: " \o message
            /\ dirty' = TRUE
       ELSE UNCHANGED <<statusMessage, dirty>>
  /\ KeepLogs
  /\ InputFrame
  /\ NoRemoteCall
  /\ lastOp' = Op("onSubscriptionError", s)
  /\ UNCHANGED <<conn, windowConn, mounted, instance, connected, identity, players,
                 localPlayer, showJoinDialog, rendered, sequence,
                 animationFrameIdRef, frames, sendCalls, gridMounted,
                 selectedSquares, gridRegistered, gridPending>>

\* subscription.onError of the subscription GroundGrid made on session s: it
\* writes the error to the console and calls no setter.
GridOnSubscriptionError(s, message) ==
  /\ s \in gridPending
  /\ gridPending' = gridPending \ {s}
  /\ KeepLogs
  /\ InputFrame
  /\ NoRemoteCall
  /\ lastOp' = Op("gridSquare.onError", s)
  /\ UNCHANGED <<sessions, selectedSquares>>
  /\ GridFrame

\* The codes of the keys the model presses: those of keyMap and one more.
KeyCodes == {"KeyW", "KeyS", "KeyA", "KeyD", "ShiftLeft", "Space", "KeyC", "KeyQ"}

\* keyMap[code]: the flag of the key, or "" (undefined) for a key not in it.
keyMap(code) ==
  CASE code = "KeyW" -> "forward"
    [] code = "KeyS" -> "backward"
    [] code = "KeyA" -> "left"
    [] code = "KeyD" -> "right"
    [] code = "ShiftLeft" -> "sprint"
    [] code = "Space" -> "jump"
    [] code = "KeyC" -> "castSpell"
    [] OTHER -> ""

\* The mouse buttons the model presses: the main one (0) and the secondary.
MouseButtons == {0, 2}

\* The handlers of the input listeners change currentInputRef only.
ListenerFrame ==
  /\ KeepLogs
  /\ NoRemoteCall
  /\ UNCHANGED <<conn, windowConn, mounted, instance, connected, identity,
                 statusMessage, players, localPlayer, showJoinDialog, dirty,
                 rendered, sequence, animationFrameIdRef, frames, sendCalls,
                 sessions, gridMounted, selectedSquares, gridRegistered,
                 gridPending, lastSentInputState, listening, animationName,
                 pointerLockElement, isPointerLocked, playerRotation>>

\* A handleKeyDown that does not test event.repeat.
keyDownLevelTriggered(input, code, repeat) ==
  LET action == keyMap(code)
  IN IF action = "" \/ input[action]
       THEN input
       ELSE [input EXCEPT ![action] = TRUE]

\* The flags after handleKeyDown.
keyDown(input, code, repeat) ==
  LET action == keyMap(code)
  IN IF repeat \/ action = "" \/ input[action]
       THEN input
       ELSE [input EXCEPT ![action] = TRUE]

\* The flags after handleKeyUp.
keyUp(input, code) ==
  LET action == keyMap(code)
  IN IF action = "" \/ ~input[action]
       THEN input
       ELSE [input EXCEPT ![action] = FALSE]

\* The flags after handleMouseDown.
mouseDown(input, button) ==
  IF button = 0 /\ ~input.attack THEN [input EXCEPT !.attack = TRUE] ELSE input

\* The flags after handleMouseUp.
mouseUp(input, button) ==
  IF button = 0 /\ input.attack THEN [input EXCEPT !.attack = FALSE] ELSE input

\* handleKeyDown, called for a keydown event while the listeners are attached.
handleKeyDown(code, repeat) ==
  /\ listening
  /\ currentInput' = keyDown(currentInput, code, repeat)
  /\ lastOp' = Op("handleKeyDown", 0)
  /\ ListenerFrame

\* handleKeyUp, called for a keyup event.
handleKeyUp(code) ==
  /\ listening
  /\ currentInput' = keyUp(currentInput, code)
  /\ lastOp' = Op("handleKeyUp", 0)
  /\ ListenerFrame

\* handleMouseDown, called for a mousedown event.
handleMouseDown(button) ==
  /\ listening
  /\ currentInput' = mouseDown(currentInput, button)
  /\ lastOp' = Op("handleMouseDown", button)
  /\ ListenerFrame

\* handleMouseUp, called for a mouseup event.
handleMouseUp(button) ==
  /\ listening
  /\ currentInput' = mouseUp(currentInput, button)
  /\ lastOp' = Op("handleMouseUp", button)
  /\ ListenerFrame

\* The movementX and movementY of the mousemove events, in pixels.
MouseMovements == {-400, 0, 400}

\* The rotation after a handleMouseMove that tests no pointer lock.
mouseMoveUngated(rotation, locked, movementX, movementY) ==
  LET turned == rotation.x - movementY * Sensitivity
      limited == IF turned > VerticalLimit THEN VerticalLimit ELSE turned
  IN [x |-> IF limited < -VerticalLimit THEN -VerticalLimit ELSE limited,
      y |-> rotation.y - movementX * Sensitivity]

\* The rotation after handleMouseMove; locked is
\* document.pointerLockElement === document.body.
mouseMove(rotation, locked, movementX, movementY) ==
  IF locked
    THEN LET turned == rotation.x - movementY * Sensitivity
             limited == IF turned > VerticalLimit THEN VerticalLimit ELSE turned
         IN [x |-> IF limited < -VerticalLimit THEN -VerticalLimit ELSE limited,
             y |-> rotation.y - movementX * Sensitivity]
    ELSE rotation

\* The handlers of the pointer and of the renderer change the pointer lock
\* and the rotation only.
RotationFrame ==
  /\ KeepLogs
  /\ NoRemoteCall
  /\ UNCHANGED <<conn, windowConn, mounted, instance, connected, identity,
                 statusMessage, players, localPlayer, showJoinDialog,
                 rendered, sequence, animationFrameIdRef, frames, sendCalls,
                 sessions, gridMounted, selectedSquares, gridRegistered,
                 gridPending, currentInput, lastSentInputState, listening,
                 animationName>>

\* handleMouseMove, called for a mousemove event; the horizontal rotation is
\* kept within the bound of the model.
handleMouseMove(movementX, movementY) ==
  /\ listening
  /\ LET after == mouseMove(playerRotation, pointerLockElement, movementX, movementY)
     IN /\ after.y <= MaxYaw
        /\ after.y >= -MaxYaw
        /\ playerRotation' = after
  /\ lastOp' = OpAt("handleMouseMove", movementX, movementY)
  /\ UNCHANGED <<pointerLockElement, isPointerLocked, dirty>>
  /\ RotationFrame

\* The browser engages or releases the pointer lock of document.body and
\* fires pointerlockchange: handlePointerLockChange runs if the listeners
\* are attached.
PointerLockChange ==
  /\ mounted
  /\ pointerLockElement' = ~pointerLockElement
  /\ IF listening
       THEN /\ isPointerLocked' = ~pointerLockElement
            /\ dirty' = TRUE
       ELSE UNCHANGED <<isPointerLocked, dirty>>
  /\ lastOp' = Op("handlePointerLockChange", IF pointerLockElement THEN 0 ELSE 1)
  /\ UNCHANGED playerRotation
  /\ RotationFrame

\* The rotations the renderer reports through onPlayerRotation.
ReportedRotations == [x : {0, VerticalLimit, VerticalLimit + Sensitivity}, y : {0, MaxYaw}]

\* handlePlayerRotation, called by the GameScene the last render showed.
handlePlayerRotation(rotation) ==
  /\ mounted
  /\ rendered.connected
  /\ playerRotation' = rotation
  /\ lastOp' = Op("handlePlayerRotation", rotation.x)
  /\ UNCHANGED <<pointerLockElement, isPointerLocked, dirty>>
  /\ RotationFrame

\* A call of determineAnimation with the snapshot currentInputRef holds.
DetermineAnimation ==
  /\ mounted
  /\ animationName' = determineAnimation(InputSnapshot(currentInput, sequence))
  /\ KeepLogs
  /\ NoRemoteCall
  /\ lastOp' = Op("determineAnimation", sequence)
  /\ UNCHANGED <<conn, windowConn, mounted, instance, connected, identity,
                 statusMessage, players, localPlayer, showJoinDialog, dirty,
                 rendered, sequence, animationFrameIdRef, frames, sendCalls,
                 sessions, gridMounted, selectedSquares, gridRegistered,
                 gridPending, currentInput, lastSentInputState, listening>>
  /\ PointerFrame

\* A handleJoinGame that calls the reducer whatever conn is.
handleJoinGameUnguarded(c, username, characterClass) ==
  [calls |-> <<Call("registerPlayer", c, <<username, characterClass>>)>>,
   showJoinDialog |-> FALSE, set |-> TRUE]

\* The body of handleJoinGame with conn = c: the reducer calls it makes, the
\* value it leaves in showJoinDialog and whether it called a state setter.
handleJoinGameBody(c, username, characterClass) ==
  IF c = NoConn
    THEN [calls |-> <<>>, showJoinDialog |-> showJoinDialog, set |-> FALSE]
    ELSE [calls |-> <<Call("registerPlayer", c, <<username, characterClass>>)>>,
          showJoinDialog |-> FALSE, set |-> TRUE]

\* handleJoinGame, called by the join dialog the last render showed.
handleJoinGame(username, characterClass) ==
  /\ mounted
  /\ rendered.showJoinDialog
  /\ LET after == handleJoinGameBody(conn, username, characterClass)
     IN /\ remoteCalls' = after.calls
        /\ showJoinDialog' = after.showJoinDialog
        /\ dirty' = (dirty \/ after.set)
  /\ KeepLogs
  /\ InputFrame
  /\ lastOp' = Op("handleJoinGame", conn)
  /\ UNCHANGED <<conn, windowConn, mounted, instance, connected, identity,
                 statusMessage, players, localPlayer, rendered, sequence,
                 animationFrameIdRef, frames, sendCalls, sessions, gridMounted,
                 selectedSquares, gridRegistered, gridPending>>

\* A handleClick that calls the reducer of the connection the grid registered
\* on, whatever window.conn is.
handleClickUnguarded(c, prev, key) ==
  [calls |-> <<Call("toggleGridSquare", c, <<key>>)>>, selectedSquares |-> prev]

\* The body of handleClick of GroundGrid with window.conn = c: the reducer
\* calls it makes and the selected set it leaves.
handleClickBody(c, prev, key) ==
  IF c = NoConn
    THEN [calls |-> <<>>, selectedSquares |-> prev]
    ELSE [calls |-> <<Call("toggleGridSquare", c, <<key>>)>>, selectedSquares |-> prev]

\* handleClick, called by a click on the square `key` of the mounted GroundGrid.
handleClick(key) ==
  /\ gridMounted
  /\ LET after == handleClickBody(windowConn, selectedSquares, key)
     IN /\ remoteCalls' = after.calls
        /\ selectedSquares' = after.selectedSquares
  /\ KeepLogs
  /\ InputFrame
  /\ lastOp' = OpAt("handleClick", windowConn, Cardinality(selectedSquares))
  /\ UNCHANGED <<sessions, gridPending>>
  /\ GridFrame

\* The updater that handleClick of components/GroundGrid.tsx gives to
\* setSelectedSquares: the key leaves the set if it is in it and joins it if not.
toggleSelected(prev, key) == IF key \in prev THEN prev \ {key} ELSE prev \cup {key}

\* handleClick of the GroundGrid of components/GroundGrid.tsx, which keeps its
\* selected set to itself: it reads no connection and calls no reducer.
handleClickLocal(key) ==
  /\ gridMounted
  /\ selectedSquares' = toggleSelected(selectedSquares, key)
  /\ KeepLogs
  /\ InputFrame
  /\ NoRemoteCall
  /\ lastOp' = OpAt("handleClick", windowConn, Cardinality(selectedSquares))
  /\ UNCHANGED <<sessions, gridPending>>
  /\ GridFrame

(***************************************************************************)
(* The specification of the whole client: the module is loaded, no App is  *)
(* mounted yet and no connection has been built.                           *)
(***************************************************************************)
Init ==
  /\ conn = NoConn
  /\ windowConn = NoConn
  /\ mounted = FALSE
  /\ instance = 0
  /\ connected = FALSE
  /\ identity = NoIdentity
  /\ statusMessage = "Connecting..."
  /\ players = EmptyMap
  /\ localPlayer = NoPlayer
  /\ showJoinDialog = FALSE
  /\ dirty = FALSE
  /\ rendered = InitialRender
  /\ sequence = 0
  /\ animationFrameIdRef = NoFrame
  /\ frames = {}
  /\ sendCalls = 0
  /\ sessions = [s \in Sessions |-> NoSession]
  /\ gridMounted = FALSE
  /\ selectedSquares = {}
  /\ gridRegistered = {}
  /\ gridPending = {}
  /\ playerLog = <<>>
  /\ gridLog = <<>>
  /\ logging = FALSE
  /\ lastOp = Op("load", 0)
  /\ currentInput = NoInput
  /\ lastSentInputState = NoSent
  /\ listening = FALSE
  /\ animationName = NoAnimation
  /\ remoteCalls = <<>>
  /\ pointerLockElement = FALSE
  /\ isPointerLocked = FALSE
  /\ playerRotation = NoRotation

\* The rows the server sends in the specifications that follow sessions
\* through their whole life: one row for each identity.
SessionRows == {p \in PlayerData : p.username = "user1"}

\* Sessions and the players mirror, over any mounts, effect runs, handshakes
\* and disconnects.
Next ==
  \/ Mount
  \/ Unmount
  \/ EffectsRerun
  \/ Commit
  \/ \E s \in Sessions, id \in Identities : OnConnect(s, id)
  \/ \E s \in Sessions : OnDisconnect(s)
  \/ \E s \in Sessions : ConnectFails(s)
  \/ \E s \in Sessions, p \in SessionRows : PlayerInsert(s, p)
  \/ \E s \in Sessions, p \in SessionRows : PlayerUpdate(s, p)
  \/ \E s \in Sessions, p \in SessionRows : PlayerDelete(s, p)
  \/ \E s \in Sessions, p \in SessionRows : PlayerCached(s, p)
  \/ \E s \in Sessions : OnApplied(s)

Spec == Init /\ [][Next]_vars

\* Sessions and the game loop, over any mounts, effect runs, handshakes and
\* disconnects.
NextLoop ==
  \/ Mount
  \/ Unmount
  \/ EffectsRerun
  \/ Commit
  \/ \E s \in Sessions, id \in Identities : OnConnect(s, id)
  \/ \E s \in Sessions : OnDisconnect(s)
  \/ \E s \in Sessions : ConnectFails(s)
  \/ \E f \in frames : gameLoop(f)

SpecLoop == Init /\ [][NextLoop]_vars

\* Sessions and the game loop with what may run between two ticks: a failed
\* subscription, a row event, a join and a click on the grid.
NextLive ==
  \/ Mount
  \/ Unmount
  \/ EffectsRerun
  \/ Commit
  \/ \E s \in Sessions, id \in Identities : OnConnect(s, id)
  \/ \E s \in Sessions : OnDisconnect(s)
  \/ \E f \in frames : gameLoop(f)
  \/ \E s \in Sessions, e \in ErrorMessages : OnSubscriptionError(s, e)
  \/ \E s \in Sessions, p \in SessionRows : PlayerInsert(s, p)
  \/ \E u \in Usernames, c \in CharacterClasses : handleJoinGame(u, c)
  \/ \E k \in GridKeys : handleClick(k)

\* The display delivers every refresh callback that stays requested, and
\* React commits every render that a state setter requested.
SpecLive ==
  /\ Init
  /\ [][NextLive]_vars
  /\ WF_vars(\E f \in frames : gameLoop(f))
  /\ WF_vars(Commit)

\* Both mirrors of one App instance and its one session.
NextMirrors ==
  \/ Mount
  \/ Commit
  \/ \E s \in Sessions, id \in Identities : OnConnect(s, id)
  \/ \E s \in Sessions : OnDisconnect(s)
  \/ \E s \in Sessions, p \in PlayerData : PlayerInsert(s, p)
  \/ \E s \in Sessions, p \in PlayerData : PlayerUpdate(s, p)
  \/ \E s \in Sessions, p \in PlayerData : PlayerDelete(s, p)
  \/ \E s \in Sessions, p \in PlayerData : PlayerCached(s, p)
  \/ \E s \in Sessions : OnApplied(s)
  \/ \E s \in Sessions, q \in GridSquareData : GridInsert(s, q)
  \/ \E s \in Sessions, q \in GridSquareData : GridUpdate(s, q)
  \/ \E s \in Sessions, q \in GridSquareData : GridDelete(s, q)
  \/ \E s \in Sessions : GridOnApplied(s)
  \/ \E k \in GridKeys : handleClick(k)
  \/ \E u \in Usernames, c \in CharacterClasses : handleJoinGame(u, c)

SpecMirrors == Init /\ [][NextMirrors]_vars

\* Sessions and the GroundGrid of components/GroundGrid.tsx, whose squares
\* are toggled by clicks only.
NextGridLocal ==
  \/ Mount
  \/ Unmount
  \/ EffectsRerun
  \/ Commit
  \/ \E s \in Sessions, id \in Identities : OnConnect(s, id)
  \/ \E s \in Sessions : OnDisconnect(s)
  \/ \E s \in Sessions : ConnectFails(s)
  \/ \E k \in GridKeys : handleClickLocal(k)

SpecGridLocal == Init /\ [][NextGridLocal]_vars

\* One App instance, its sessions and both subscriptions, each of which is
\* applied or fails.
NextErrors ==
  \/ Mount
  \/ Commit
  \/ \E s \in Sessions, id \in Identities : OnConnect(s, id)
  \/ \E s \in Sessions : OnDisconnect(s)
  \/ \E s \in Sessions, p \in SessionRows : PlayerInsert(s, p)
  \/ \E s \in Sessions, q \in GridSquareData : GridInsert(s, q)
  \/ \E s \in Sessions : OnApplied(s)
  \/ \E s \in Sessions : GridOnApplied(s)
  \/ \E s \in Sessions, e \in ErrorMessages : OnSubscriptionError(s, e)
  \/ \E s \in Sessions, e \in ErrorMessages : GridOnSubscriptionError(s, e)

SpecErrors == Init /\ [][NextErrors]_vars

\* The grid mirror over any mounts, effect runs, handshakes and disconnects.
NextGridSessions ==
  \/ Mount
  \/ Unmount
  \/ EffectsRerun
  \/ Commit
  \/ \E s \in Sessions, id \in Identities : OnConnect(s, id)
  \/ \E s \in Sessions : OnDisconnect(s)
  \/ \E s \in Sessions, q \in GridSquareData : GridInsert(s, q)
  \/ \E s \in Sessions, q \in GridSquareData : GridUpdate(s, q)
  \/ \E s \in Sessions, q \in GridSquareData : GridDelete(s, q)
  \/ \E s \in Sessions : GridOnApplied(s)

SpecGridSessions == Init /\ [][NextGridSessions]_vars

\* The input pipeline of one connected session: input events and ticks.
NextInput ==
  \/ \E code \in KeyCodes, repeat \in BOOLEAN : handleKeyDown(code, repeat)
  \/ \E code \in KeyCodes : handleKeyUp(code)
  \/ \E button \in MouseButtons : handleMouseDown(button)
  \/ \E button \in MouseButtons : handleMouseUp(button)
  \/ \E f \in frames : gameLoop(f)

(***************************************************************************)
(* Replay: one connected session whose callbacks are registered and whose  *)
(* mirrors are empty (the state after Mount, OnConnect and Commit), then   *)
(* any row events, each of them logged.                                    *)
(***************************************************************************)
InitReplay ==
  /\ conn = 1
  /\ windowConn = 1
  /\ mounted = TRUE
  /\ instance = 1
  /\ connected = TRUE
  /\ identity \in Identities
  /\ statusMessage = "Connected"
  /\ players = EmptyMap
  /\ localPlayer = NoPlayer
  /\ showJoinDialog = TRUE
  /\ dirty = FALSE
  /\ rendered = [connected |-> TRUE, conn |-> 1, identity |-> identity,
                  showJoinDialog |-> TRUE]
  /\ sequence = 0
  /\ animationFrameIdRef = 1
  /\ frames = {[id |-> 1, connected |-> TRUE, identity |-> identity]}
  /\ sendCalls = 0
  /\ sessions = [s \in Sessions |->
                   IF s = 1
                     THEN [NoSession EXCEPT !.status = "live", !.owner = 1,
                                            !.registered = TRUE, !.applying = TRUE]
                     ELSE NoSession]
  /\ gridMounted = TRUE
  /\ selectedSquares = {}
  /\ gridRegistered = {1}
  /\ gridPending = {1}
  /\ playerLog = <<>>
  /\ gridLog = <<>>
  /\ logging = TRUE
  /\ lastOp = Op("commit", 1)
  /\ currentInput = NoInput
  /\ lastSentInputState = NoSent
  /\ listening = TRUE
  /\ animationName = NoAnimation
  /\ remoteCalls = <<>>
  /\ pointerLockElement = FALSE
  /\ isPointerLocked = FALSE
  /\ playerRotation = NoRotation

NextReplay ==
  \/ \E p \in PlayerData : PlayerInsert(1, p)
  \/ \E p \in PlayerData : PlayerUpdate(1, p)
  \/ \E p \in PlayerData : PlayerDelete(1, p)

SpecReplay == InitReplay /\ [][NextReplay]_vars

SpecInput == InitReplay /\ [][NextInput]_vars

\* The keys pressed while the ticks send the input to the server.
DispatchKeys == {"KeyW", "ShiftLeft"}

\* The input pipeline of one connected session whose ticks send the input to
\* the server.
NextAuthoritative ==
  \/ \E code \in DispatchKeys, repeat \in BOOLEAN : handleKeyDown(code, repeat)
  \/ \E code \in DispatchKeys : handleKeyUp(code)
  \/ \E button \in MouseButtons : handleMouseDown(button)
  \/ \E button \in MouseButtons : handleMouseUp(button)
  \/ \E f \in frames : gameLoopServerAuthoritative(f)

SpecAuthoritative == InitReplay /\ [][NextAuthoritative]_vars

\* The pointer of one connected session: pointer lock changes, mouse moves,
\* reports of the renderer, and key and button events and ticks in between.
NextPointer ==
  \/ PointerLockChange
  \/ \E movementX \in MouseMovements, movementY \in MouseMovements :
       handleMouseMove(movementX, movementY)
  \/ \E rotation \in ReportedRotations : handlePlayerRotation(rotation)
  \/ \E code \in DispatchKeys : handleKeyDown(code, FALSE)
  \/ \E button \in MouseButtons : handleMouseDown(button)
  \/ \E f \in frames : gameLoop(f)

SpecPointer == InitReplay /\ [][NextPointer]_vars

\* The mouse of one connected session whose renderer reports no rotation.
NextMouse ==
  \/ PointerLockChange
  \/ \E movementX \in MouseMovements, movementY \in MouseMovements :
       handleMouseMove(movementX, movementY)
  \/ \E code \in DispatchKeys : handleKeyDown(code, FALSE)
  \/ \E button \in MouseButtons : handleMouseDown(button)
  \/ \E f \in frames : gameLoop(f)

SpecMouse == InitReplay /\ [][NextMouse]_vars

\* The ticks of one connected session and what runs between them: key and
\* button events, reports of the renderer and row events of both tables.
NextTick ==
  \/ \E code \in DispatchKeys : handleKeyDown(code, FALSE)
  \/ \E code \in DispatchKeys : handleKeyUp(code)
  \/ \E button \in MouseButtons : handleMouseDown(button)
  \/ \E button \in MouseButtons : handleMouseUp(button)
  \/ \E rotation \in ReportedRotations : handlePlayerRotation(rotation)
  \/ \E p \in SessionRows : PlayerInsert(1, p)
  \/ GridInsert(1, [key |-> squareKey(0, 0), selected |-> TRUE])
  \/ \E f \in frames : gameLoop(f)

SpecTick == InitReplay /\ [][NextTick]_vars

\* The classifier, applied to every snapshot that input events and ticks lead to.
NextClassify ==
  \/ \E code \in KeyCodes, repeat \in BOOLEAN : handleKeyDown(code, repeat)
  \/ \E code \in KeyCodes : handleKeyUp(code)
  \/ \E button \in MouseButtons : handleMouseDown(button)
  \/ \E button \in MouseButtons : handleMouseUp(button)
  \/ \E f \in frames : gameLoop(f)
  \/ DetermineAnimation

SpecClassify == InitReplay /\ [][NextClassify]_vars

NextGridReplay ==
  \/ \E q \in GridSquareData : GridInsert(1, q)
  \/ \E q \in GridSquareData : GridUpdate(1, q)
  \/ \E q \in GridSquareData : GridDelete(1, q)

SpecGridReplay == InitReplay /\ [][NextGridReplay]_vars

\* The state InitReplay starts from is a state of the client.
ReplayStartReached ==
  /\ conn = 1 /\ windowConn = 1 /\ mounted /\ instance = 1 /\ connected
  /\ identity \in Identities /\ statusMessage = "Connected"
  /\ players = EmptyMap /\ localPlayer = NoPlayer /\ showJoinDialog /\ ~dirty
  /\ rendered = [connected |-> TRUE, conn |-> 1, identity |-> identity,
                  showJoinDialog |-> TRUE]
  /\ sequence = 0 /\ animationFrameIdRef = 1
  /\ frames = {[id |-> 1, connected |-> TRUE, identity |-> identity]}
  /\ sendCalls = 0
  /\ sessions[1] = [NoSession EXCEPT !.status = "live", !.owner = 1,
                                     !.registered = TRUE, !.applying = TRUE]
  /\ sessions[2] = NoSession
  /\ gridMounted /\ selectedSquares = {} /\ gridRegistered = {1} /\ gridPending = {1}
  /\ lastOp = Op("commit", 1)
  /\ currentInput = NoInput
  /\ lastSentInputState = NoSent
  /\ listening = TRUE
  /\ animationName = NoAnimation
  /\ remoteCalls = <<>>
  /\ pointerLockElement = FALSE
  /\ isPointerLocked = FALSE
  /\ playerRotation = NoRotation


(***************************************************************************)
(* The reference maps of the replay claims: a map keyed by the identity    *)
(* (by the key) of the row, to which insert and update put the row and     *)
(* from which delete removes it.                                           *)
(***************************************************************************)
RefPut(m, k, row) == [x \in (DOMAIN m) \cup {k} |-> IF x = k THEN row ELSE m[x]]
RefRemove(m, k) == [x \in (DOMAIN m) \ {k} |-> m[x]]

RECURSIVE ReplayPlayers(_)
ReplayPlayers(log) ==
  IF log = <<>>
    THEN EmptyMap
    ELSE LET e == log[Len(log)]
             before == ReplayPlayers(SubSeq(log, 1, Len(log) - 1))
         IN IF e.op = "delete"
              THEN RefRemove(before, e.row.identity)
              ELSE RefPut(before, e.row.identity, e.row)

RECURSIVE ReplayGrid(_)
ReplayGrid(log) ==
  IF log = <<>>
    THEN EmptyMap
    ELSE LET e == log[Len(log)]
             before == ReplayGrid(SubSeq(log, 1, Len(log) - 1))
         IN IF e.op = "delete"
              THEN RefRemove(before, e.row.key)
              ELSE RefPut(before, e.row.key, e.row)

\* C1: after any sequence of player onInsert/onUpdate/onDelete events delivered
\* to one live session, the players map holds, under the hex string of each
\* identity, exactly the row that a reference map replaying the same events in
\* the same order holds for that identity.
C1_PlayersReplayEquivalence ==
  logging =>
    LET ref == ReplayPlayers(playerLog)
    IN /\ DOMAIN players = {toHexString(i) : i \in DOMAIN ref}
       /\ \A i \in DOMAIN ref : players[toHexString(i)] = ref[i]

\* C1 witness: an update of an absent key, a delete of another absent key, then
\* an update that replaces the row of the first key.
C1_Witness ==
  /\ logging
  /\ Len(playerLog) = 3
  /\ playerLog[1].op = "update"
  /\ playerLog[2].op = "delete"
  /\ playerLog[2].row.identity # playerLog[1].row.identity
  /\ playerLog[3].op = "update"
  /\ playerLog[3].row.identity = playerLog[1].row.identity
  /\ playerLog[3].row # playerLog[1].row
  /\ players[toHexString(playerLog[1].row.identity)] = playerLog[3].row

\* C2: after any sequence of grid_square onInsert/onUpdate/onDelete events, a
\* key is in selectedSquares if and only if a reference map replaying the same
\* events holds a record for that key with selected = true.
C2_GridReplayEquivalence ==
  logging =>
    LET ref == ReplayGrid(gridLog)
    IN \A k \in GridKeys : k \in selectedSquares <=> (k \in DOMAIN ref /\ ref[k].selected)


(***************************************************************************)
(* Sessions, teardown and the initial load.                                *)
(***************************************************************************)
MirrorCallbacks == {"player.onInsert", "player.onUpdate", "player.onDelete", "onApplied"}

\* C3: a callback of a session whose onDisconnect has run (a row callback or
\* onApplied), and the onDisconnect of a session that arrives while a newer
\* session is live, leave players, localPlayer, identity, connected, conn and
\* window.conn as they were.
C3_NoLateMutation ==
  [][(\/ /\ lastOp'.op \in MirrorCallbacks
         /\ sessions[lastOp'.arg].status = "closed"
      \/ /\ lastOp'.op = "onDisconnect"
         /\ \E n \in Sessions : n > lastOp'.arg /\ sessions[n].status = "live")
     => UNCHANGED <<players, localPlayer, identity, connected, conn, windowConn>>]_vars

\* C4: in the state right after onDisconnect ran, the players mirror is empty,
\* localPlayer is absent, identity is null, connected is false and conn and
\* window.conn are null.
C4_DisconnectTeardown ==
  (lastOp.op = "onDisconnect" /\ mounted) =>
    /\ players = EmptyMap
    /\ localPlayer = NoPlayer
    /\ identity = NoIdentity
    /\ ~connected
    /\ conn = NoConn
    /\ windowConn = NoConn

\* C5: at most one connection is built and not yet closed at any time.
C5_SingleLiveSession == Cardinality(Open) <= 1

\* The rows of a cache, each under the hex string of its identity.
MirrorsCache(m, cache) ==
  /\ DOMAIN m = {toHexString(r.identity) : r \in MapValues(cache)}
  /\ \A r \in MapValues(cache) : m[toHexString(r.identity)] = r

\* C6: in the state right after onApplied fired on a live session, the players
\* mirror contains exactly the rows of that session's client cache.
C6_RepopulatedOnApplied ==
  (lastOp.op = "onApplied" /\ mounted /\ sessions[lastOp.arg].status = "live") =>
    MirrorsCache(players, sessions[lastOp.arg].cache)

\* C6 as amended: when onApplied fires for the mounted App while its players
\* mirror is empty and conn is set, the mirror afterwards contains exactly the
\* rows that iterating conn's client cache yields; in every other case
\* onApplied leaves the mirror as it was.
C6_LoadIntoEmptyMirror ==
  [][lastOp'.op = "onApplied" =>
       IF Owns(lastOp'.arg) /\ MapSize(players) = 0 /\ conn # NoConn
         THEN MirrorsCache(players', sessions[conn].cache)
         ELSE players' = players]_vars

\* C6 witness: onApplied of a live session found the mirror of the mounted App
\* empty and loaded two rows from the cache.
C6_Witness ==
  /\ lastOp.op = "onApplied"
  /\ lastOp.pre = 0
  /\ Owns(lastOp.arg)
  /\ sessions[lastOp.arg].status = "live"
  /\ conn = lastOp.arg
  /\ MapSize(players) = 2
  /\ MirrorsCache(players, sessions[conn].cache)

\* C7: for the players mirror and for the selected set of the grid, onApplied
\* leaves a mirror that is not empty unchanged: the load from the cache happens
\* only into an empty mirror.
C7_LoadOnlyIntoEmpty ==
  [][/\ (lastOp'.op = "onApplied" /\ MapSize(players) # 0) => players' = players
     /\ (lastOp'.op = "gridSquare.onApplied" /\ selectedSquares # {})
          => selectedSquares' = selectedSquares]_vars


(***************************************************************************)
(* The game loop.                                                          *)
(***************************************************************************)
\* A connected session whose game loop has run SeqThreshold - 1 ticks: the
\* state after Mount, OnConnect and Commit, but for the sequence counter, the
\* count of sendInput calls and the handle of the pending frame.
InitSeq ==
  /\ conn = 1
  /\ windowConn = 1
  /\ mounted = TRUE
  /\ instance = 1
  /\ connected = TRUE
  /\ identity \in Identities
  /\ statusMessage = "Connected"
  /\ players = EmptyMap
  /\ localPlayer = NoPlayer
  /\ showJoinDialog = TRUE
  /\ dirty = FALSE
  /\ rendered = [connected |-> TRUE, conn |-> 1, identity |-> identity,
                  showJoinDialog |-> TRUE]
  /\ sequence = SeqThreshold - 1
  /\ animationFrameIdRef = 2
  /\ frames = {[id |-> 2, connected |-> TRUE, identity |-> identity]}
  /\ sendCalls = SeqThreshold - 1
  /\ sessions = [s \in Sessions |->
                   IF s = 1
                     THEN [NoSession EXCEPT !.status = "live", !.owner = 1,
                                            !.registered = TRUE, !.applying = TRUE]
                     ELSE NoSession]
  /\ gridMounted = TRUE
  /\ selectedSquares = {}
  /\ gridRegistered = {1}
  /\ gridPending = {1}
  /\ playerLog = <<>>
  /\ gridLog = <<>>
  /\ logging = FALSE
  /\ lastOp = Op("gameLoop", 1)
  /\ currentInput = NoInput
  /\ lastSentInputState = NoSent
  /\ listening = TRUE
  /\ animationName = NoAnimation
  /\ remoteCalls = <<>>
  /\ pointerLockElement = FALSE
  /\ isPointerLocked = FALSE
  /\ playerRotation = NoRotation

SpecSeq == InitSeq /\ [][NextLoop]_vars

\* C8: the sequence counter never stays above 1,000,000: the tick that takes
\* it past the threshold resets it to 1.
C8_SequenceBelowThreshold == sequence <= SeqThreshold

\* The session is active: connected, with conn and identity set.
Active == connected /\ conn # NoConn /\ identity # NoIdentity

\* C9: a tick that runs while the session is active increases the sequence by
\* exactly 1, calls sendInput once and schedules exactly one next tick, whose
\* handle it keeps.
C9_TickStep ==
  [][(lastOp'.op = "gameLoop" /\ Active) =>
       /\ sequence' = sequence + 1
       /\ sendCalls' = sendCalls + 1
       /\ Cardinality(frames' \ frames) = 1
       /\ Cardinality(frames') = 1
       /\ animationFrameIdRef' \in FrameIds(frames' \ frames)]_vars

\* C9 witness: two ticks of an active session have run and the next one is
\* pending.
C9_Witness ==
  /\ lastOp.op = "gameLoop"
  /\ Active
  /\ sequence = 2
  /\ sendCalls = 2
  /\ Cardinality(frames) = 1
  /\ animationFrameIdRef \in FrameIds(frames)

\* C10: a tick that runs while the session is inactive leaves the sequence
\* as it is, calls no sendInput, schedules no tick and leaves the handle null,
\* so that no further tick is pending.
C10_HaltWhenInactive ==
  [][(lastOp'.op = "gameLoop" /\ ~Active) =>
       /\ sequence' = sequence
       /\ sendCalls' = sendCalls
       /\ frames' = {}
       /\ animationFrameIdRef' = NoFrame]_vars

\* The game loop as the mounted instance holds it: the handle and the pending
\* callbacks.
Loop == [ref |-> animationFrameIdRef, frames |-> frames]

\* C11: once the cleanup of the game loop effect has run, no tick is pending
\* and the handle is null; the cleanup, run at any moment, leaves the loop so,
\* and run a second time it changes nothing.
C11_LoopTeardown ==
  [][/\ lastOp'.op = "unmount" => frames' = {} /\ animationFrameIdRef' = NoFrame
     /\ LET once == LoopCleanup(Loop')
        IN /\ once = [ref |-> NoFrame, frames |-> {}]
           /\ LoopCleanup(once) = once]_vars

\* C11 witness: the cleanup ran while a tick was pending, and none is pending
\* after it.
C11_Witness ==
  /\ lastOp.op = "unmount"
  /\ lastOp.pre = 1
  /\ frames = {}
  /\ animationFrameIdRef = NoFrame

\* The mounted App is connected and the game loop effect has run for the
\* render that saw it connected.
LoopOwned == mounted /\ connected /\ rendered.connected

\* C12: while the App stays connected and mounted, every tick is followed by
\* another one, whatever subscription error, row event, join or click on
\* the grid runs in between.
C12_LoopNeverStops ==
  \A n \in 0..(MaxTicks - 1) :
    (LoopOwned /\ sequence = n) ~> (sequence = n + 1 \/ ~mounted \/ ~connected)

\* The reducers the handler that ran last called.
Reducers == {remoteCalls[i].reducer : i \in 1..Len(remoteCalls)}

NoLiveSession == \A s \in Sessions : sessions[s].status # "live"

\* C14: a click on a square while no session is live calls no reducer and
\* leaves the selected set as it was.
C14_ToggleWhileDisconnected ==
  [][(lastOp'.op = "handleClick" /\ NoLiveSession) =>
       /\ remoteCalls' = <<>>
       /\ selectedSquares' = selectedSquares]_vars

\* The handlers in which the selected set of a mounted GroundGrid may change,
\* and the steps of React that mount or unmount it.
GridCallbacks ==
  {"gridSquare.onInsert", "gridSquare.onUpdate", "gridSquare.onDelete",
   "gridSquare.onApplied", "commit", "unmount"}

\* C15: a click on a square while a session is live calls toggleGridSquare
\* once, for one key, and leaves the selected set as it was; the selected set
\* changes in the row callbacks and in onApplied only.
C15_TogglePassThrough ==
  [][/\ (lastOp'.op = "handleClick" /\ ~NoLiveSession) =>
          /\ Len(remoteCalls') = 1
          /\ remoteCalls'[1].reducer = "toggleGridSquare"
          /\ remoteCalls'[1].args \in {<<k>> : k \in GridKeys}
          /\ selectedSquares' = selectedSquares
     /\ selectedSquares' # selectedSquares => lastOp'.op \in GridCallbacks]_vars

\* C16: a join attempted while no session is live calls no reducer and
\* leaves both mirrors, localPlayer and the join dialog as they were; no other
\* handler calls registerPlayer for it later.
C16_JoinWhileDisconnected ==
  [][/\ (lastOp'.op = "handleJoinGame" /\ NoLiveSession) =>
          /\ remoteCalls' = <<>>
          /\ players' = players
          /\ selectedSquares' = selectedSquares
          /\ localPlayer' = localPlayer
          /\ showJoinDialog' = showJoinDialog
     /\ "registerPlayer" \in Reducers' =>
          (lastOp'.op = "handleJoinGame" /\ ~NoLiveSession)]_vars

\* C16 witness: the join was attempted after the session was lost, with the
\* dialog still shown and a square still selected in the grid mirror.
C16_Witness ==
  /\ lastOp.op = "handleJoinGame"
  /\ lastOp.arg = NoConn
  /\ NoLiveSession
  /\ \E s \in Sessions : sessions[s].status = "closed"
  /\ showJoinDialog
  /\ selectedSquares # {}
  /\ remoteCalls = <<>>

(***************************************************************************)
(* The animation classifier.                                               *)
(***************************************************************************)
MoveTypes == {"run", "walk"}
Directions == {"forward", "back", "left", "right"}
MovementTags == {Tag(m, d) : m \in MoveTypes, d \in Directions}
FixedTags == {"idle", "jump", "attack1", "cast"}

\* determineAnimation has just returned animationName for the flags held.
Classified == lastOp.op = "determineAnimation"

\* C17: with attack, castSpell and jump false, one lateral and one
\* longitudinal flag set, the tag carries the lateral direction.
C17_DiagonalResolution ==
  (/\ Classified
   /\ ~currentInput.attack /\ ~currentInput.castSpell /\ ~currentInput.jump
   /\ currentInput.left # currentInput.right
   /\ currentInput.forward # currentInput.backward)
    => animationName \in {Tag(m, IF currentInput.left THEN "left" ELSE "right") :
                            m \in MoveTypes}

\* C18: attack gives 'attack1'; else castSpell gives 'cast'; else jump gives
\* 'jump'; else any movement flag gives a movement tag; else the tag is 'idle'.
C18_ClassifierPriority ==
  Classified =>
    IF currentInput.attack THEN animationName = "attack1"
    ELSE IF currentInput.castSpell THEN animationName = "cast"
    ELSE IF currentInput.jump THEN animationName = "jump"
    ELSE IF \/ currentInput.forward \/ currentInput.backward
            \/ currentInput.left \/ currentInput.right
           THEN animationName \in MovementTags
    ELSE animationName = "idle"

\* C18 witness: every flag of the three early returns is set together with a
\* movement key, and the tag is that of the attack.
C18_Witness ==
  /\ Classified
  /\ currentInput.attack /\ currentInput.castSpell /\ currentInput.jump
  /\ currentInput.forward /\ currentInput.sprint
  /\ animationName = "attack1"

\* Values of the sequence counter: before the first tick, within the ticks
\* the model takes, and around the threshold.
SequenceSamples == (0..MaxTicks) \cup {SeqThreshold, SeqThreshold + 1}

\* C19: determineAnimation returns one tag for every flag combination, a
\* fixed literal or a movement tag, and returns the same tag whatever the
\* sequence counter of the snapshot is.
C19_ClassifierTotal ==
  Classified =>
    /\ animationName \in FixedTags \cup MovementTags
    /\ \A q \in SequenceSamples :
         determineAnimation(InputSnapshot(currentInput, q)) = animationName

\* C19 witness: a snapshot that two ticks have counted is given a movement tag.
C19_Witness ==
  /\ Classified
  /\ sequence = MaxTicks
  /\ currentInput.backward /\ currentInput.sprint
  /\ animationName = "run-back"

\* The snapshot that differs from the one held in the sprint flag only.
SprintFlipped == InputSnapshot([currentInput EXCEPT !.sprint = ~@], sequence)

\* C20: two snapshots that differ in sprint only get movement tags of the same
\* direction, 'run' with sprint and 'walk' without, or the same fixed tag.
C20_SprintOrthogonal ==
  Classified =>
    IF animationName \in MovementTags
      THEN \E d \in Directions :
             /\ animationName = Tag(IF currentInput.sprint THEN "run" ELSE "walk", d)
             /\ determineAnimation(SprintFlipped) =
                  Tag(IF currentInput.sprint THEN "walk" ELSE "run", d)
      ELSE /\ animationName \in FixedTags
           /\ determineAnimation(SprintFlipped) = animationName

\* C20 witness: sprint is held with the left key alone, and the tag is 'run-left'.
C20_Witness ==
  /\ Classified
  /\ currentInput.sprint /\ currentInput.left
  /\ ~currentInput.right /\ ~currentInput.forward /\ ~currentInput.backward
  /\ animationName = "run-left"

(***************************************************************************)
(* Errors: a failed handshake and a failed subscription.                   *)
(***************************************************************************)
\* C21: when the handshake of a connection built by the mounted App fails,
\* the status message no longer reads 'Connecting...'.
C21_ConnectFailureSurfaced ==
  [][(lastOp'.op = "connectFails" /\ Owns(lastOp'.arg)) =>
       statusMessage' # "Connecting..."]_vars

\* The status messages that report a failed subscription.
SubscriptionErrorMessages == {"Subscription Error: " \o e : e \in ErrorMessages}

\* C22: when the onError callback of a subscription of the mounted App or of
\* the mounted GroundGrid fires, the status message reports the subscription
\* error, and both mirrors, the connected flag and the session handle are as
\* they were.
C22_SubscriptionFailureSurfaced ==
  [][(\/ lastOp'.op = "onSubscriptionError" /\ Owns(lastOp'.arg)
      \/ lastOp'.op = "gridSquare.onError") =>
       /\ statusMessage' \in SubscriptionErrorMessages
       /\ players' = players
       /\ selectedSquares' = selectedSquares
       /\ connected' = connected
       /\ conn' = conn
       /\ windowConn' = windowConn]_vars

(***************************************************************************)
(* The local player.                                                       *)
(***************************************************************************)
\* The mounted App is connected on the live session conn with an identity.
OnLiveSession ==
  /\ mounted
  /\ connected
  /\ identity # NoIdentity
  /\ conn # NoConn
  /\ sessions[conn].status = "live"
  /\ Owns(conn)

\* The record the players mirror holds for the identity of the App, or none.
OwnRecord ==
  IF toHexString(identity) \in DOMAIN players
    THEN players[toHexString(identity)]
    ELSE NoPlayer

\* C23: on a live session localPlayer is the record of the players mirror
\* whose identity is the session's, and none when the mirror holds no such
\* record; after the insert of the session's own record the status message is
\* 'Registered as <username>'.
C23_LocalPlayerTracksMirror ==
  OnLiveSession =>
    /\ localPlayer = OwnRecord
    /\ (lastOp.op = "player.onInsert" /\ OwnRecord # NoPlayer) =>
         statusMessage = "Registered as " \o OwnRecord.username

(***************************************************************************)
(* The grid mirror and the unique index of the grid_square table.          *)
(***************************************************************************)
\* The subscription GroundGrid made on the live session s has been applied.
Subscribed(s) ==
  /\ sessions[s].status = "live"
  /\ s \in gridRegistered
  /\ s \notin gridPending

\* C24: the subscription of a live session that holds no row is applied and
\* the selected set is empty afterwards; an insert event with selected = true
\* that follows makes find return that row for its key and puts the key in
\* the selected set; find returns nothing for a key the cache does not hold
\* and never a row of another key.
C24_InsertThenFind ==
  [][/\ \A s \in Sessions :
          (/\ GridOnApplied(s)
           /\ sessions[s].status = "live"
           /\ sessions[s].gridCache = EmptyMap) => selectedSquares' = {}
     /\ \A s \in Sessions, q \in GridSquareData :
          (GridInsert(s, q) /\ Subscribed(s) /\ q.selected) =>
            /\ find(s, q.key)' = {q}
            /\ q.key \in selectedSquares'
     /\ \A s \in Sessions, k \in GridKeys :
          /\ \A r \in find(s, k)' : r.key = k
          /\ k \notin DOMAIN sessions'[s].gridCache => find(s, k)' = {}]_vars

(***************************************************************************)
(* The dispatch of the input to the server.                                *)
(***************************************************************************)
\* The eight action flags of a snapshot.
FlagsOf(snapshot) == [a \in DOMAIN NoInput |-> snapshot[a]]

WithFlag(input, action, value) ==
  [a \in DOMAIN input |-> IF a = action THEN value ELSE input[a]]

\* C26: a keydown flagged as repeat and a key event of a code that keyMap
\* does not hold leave the flags and the sequence as they were; a keydown
\* (keyup) of a mapped key that is no repeat sets the flag of that key to
\* true (false) and leaves the other flags and the sequence as they were;
\* the attack flag changes only in a press or release of mouse button 0.
C26_EdgeTriggeredKeys ==
  [][/\ \A code \in KeyCodes, repeat \in BOOLEAN :
          handleKeyDown(code, repeat) =>
            /\ sequence' = sequence
            /\ currentInput' = IF repeat \/ keyMap(code) = ""
                                 THEN currentInput
                                 ELSE WithFlag(currentInput, keyMap(code), TRUE)
     /\ \A code \in KeyCodes :
          handleKeyUp(code) =>
            /\ sequence' = sequence
            /\ currentInput' = IF keyMap(code) = ""
                                 THEN currentInput
                                 ELSE WithFlag(currentInput, keyMap(code), FALSE)
     /\ currentInput'.attack # currentInput.attack =>
          /\ lastOp'.op \in {"handleMouseDown", "handleMouseUp"}
          /\ lastOp'.arg = 0]_vars

\* C26 witness: after a tick a keydown event arrived while no key was held and
\* left every flag false (a repeat, or a key that keyMap does not hold).
C26_Witness ==
  /\ lastOp.op = "handleKeyDown"
  /\ currentInput = NoInput
  /\ sequence = 1

(***************************************************************************)
(* The pointer lock and the rotation.                                      *)
(***************************************************************************)
\* C27: a mousemove event that arrives while the pointer lock is not engaged
\* leaves both components of the rotation as they were; one that arrives
\* while it is engaged changes the rotation at most: the flags, the sequence
\* and the rest of the state are as they were.
C27_PointerLockGating ==
  [][lastOp'.op = "handleMouseMove" =>
       /\ ~pointerLockElement => playerRotation' = playerRotation
       /\ currentInput' = currentInput
       /\ sequence' = sequence
       /\ UNCHANGED <<pointerLockElement, isPointerLocked, lastSentInputState,
                      players, localPlayer, selectedSquares, connected, identity,
                      conn, statusMessage, animationFrameIdRef, frames>>]_vars

\* C27 witness: a mousemove with a vertical movement arrived while the pointer
\* lock was released, after the rotation had been turned under the lock, a
\* key had been pressed and a tick had run.
C27_Witness ==
  /\ lastOp.op = "handleMouseMove"
  /\ lastOp.pre # 0
  /\ ~pointerLockElement
  /\ playerRotation.x # 0
  /\ playerRotation.y # 0
  /\ currentInput.forward
  /\ sequence = 1

\* C28: the vertical rotation lies within [-pi/2.5, pi/2.5] in every state.
C28_VerticalClamped ==
  /\ playerRotation.x >= -VerticalLimit
  /\ playerRotation.x <= VerticalLimit

(***************************************************************************)
(* The players map and the connected flag.                                 *)
(***************************************************************************)
\* C29: every entry of the players map is stored under the hex string of the
\* identity of its record, and no two entries hold records of one identity.
C29_OneRecordPerIdentity ==
  /\ \A k \in DOMAIN players : k = toHexString(players[k].identity)
  /\ \A k1, k2 \in DOMAIN players :
       players[k1].identity = players[k2].identity => k1 = k2

\* C29 witness: the map holds a record for every identity, and an update has
\* just replaced the record of one of them.
C29_Witness ==
  /\ lastOp.op = "player.onUpdate"
  /\ MapSize(players) = NumIdentities
  /\ \E k1, k2 \in DOMAIN players : players[k1].username # players[k2].username

\* C30: while an App is mounted, its connected flag is true exactly when the
\* session handle conn is set.
C30_ConnectedIffConn == mounted => (connected <=> conn # NoConn)

(***************************************************************************)
(* The frame loop.                                                         *)
(***************************************************************************)
\* C31: at most one tick is pending on the display-refresh scheduler, and
\* animationFrameIdRef holds a handle exactly when a tick is pending.
C31_SingleFrameLoop ==
  /\ Cardinality(frames) <= 1
  /\ animationFrameIdRef # NoFrame <=> frames # {}

\* C31 witness: after a tick the effects were cleaned up and run again, and
\* the one pending tick is the one whose handle the loop holds.
C31_Witness ==
  /\ lastOp.op = "rerun"
  /\ sequence >= 1
  /\ connected
  /\ Cardinality(frames) = 1
  /\ animationFrameIdRef \in FrameIds(frames)

\* The handlers of the events that release a key or a button.
ReleaseHandlers == {"handleKeyUp", "handleMouseUp"}

\* C32: a tick leaves the eight flags, the rotation, the players mirror,
\* localPlayer and the selected set as they were: besides the sequence and
\* the scheduling handle it changes nothing of the client's state; a flag
\* that is set is cleared by a release event only, whatever ticks run.
C32_TickFrame ==
  [][/\ lastOp'.op = "gameLoop" =>
          /\ currentInput' = currentInput
          /\ playerRotation' = playerRotation
          /\ players' = players
          /\ localPlayer' = localPlayer
          /\ selectedSquares' = selectedSquares
          /\ UNCHANGED <<lastSentInputState, conn, windowConn, connected, identity,
                         statusMessage, showJoinDialog, isPointerLocked,
                         pointerLockElement, sessions, animationName>>
     /\ \A a \in DOMAIN NoInput :
          (currentInput[a] /\ ~currentInput'[a]) => lastOp'.op \in ReleaseHandlers]_vars

\* C32 witness: two ticks have run while a key was held, with a rotation
\* reported, a row in the players mirror and a square selected.
C32_Witness ==
  /\ lastOp.op = "gameLoop"
  /\ sequence = 2
  /\ currentInput.forward
  /\ playerRotation # NoRotation
  /\ players # EmptyMap
  /\ selectedSquares # {}

====
